---- MODULE Spec2Model ----
(***************************************************************************)
(* A model of horton/cext.pyx: the Cell wrapper (construction, update,     *)
(* parametric construction, cutoff ranges, image selection), smart_wrap    *)
(* and the size checks of the polynomial fillers.                          *)
(*                                                                         *)
(* A C double is modelled as an exact extended rational <<n, d>> in lowest *)
(* terms with d >= 0: d > 0 is the finite value n/d, <<1,0>> is +inf,      *)
(* <<-1,0>> is -inf and <<0,0>> is NaN, with IEEE-754 rules for the        *)
(* non-finite values.  Rounding is not modelled.                           *)
(***************************************************************************)
EXTENDS Integers, Sequences, FiniteSets, TLC

VARIABLES cell, supplied, call

vars == <<cell, supplied, call>>

---------------------------------------------------------------------------
(* Bounds of the model *)

\* largest singular value of a lattice matrix handed to update_rvecs
MaxS == 2

\* largest length handed to from_parameters
MaxLength == 2

\* largest index, in absolute value, and largest shape handed to smart_wrap
MaxI == 7

MaxShape == 4

\* largest of the small values of lmax, largest length of an output buffer,
\* and a value of lmax that fits a long but is far too large for any buffer
MaxLmax == 2

MaxSize == 9

HugeLmax == 2289428

\* largest cutoff radius, and largest count of cell vectors in a translation
\* that is compared with the ranges
MaxCutoff == 2

MaxImage == 2

---------------------------------------------------------------------------
(* double arithmetic *)

Abs(x) == IF x < 0 THEN -x ELSE x

Sign(x) == IF x > 0 THEN 1 ELSE IF x < 0 THEN -1 ELSE 0

RECURSIVE GCD(_, _)
GCD(a, b) == IF b = 0 THEN a ELSE GCD(b, a % b)

Dbl(n, d) ==
    IF d = 0 THEN <<Sign(n), 0>>
    ELSE LET g == GCD(Abs(n), Abs(d))
             s == Sign(d)
         IN  <<(s * n) \div g, (s * d) \div g>>

NaN == <<0, 0>>

Inf == <<1, 0>>

Zero == <<0, 1>>

One == <<1, 1>>

IsFinite(a) == a[2] # 0

IsNaN(a) == a = NaN

fmul(a, b) == Dbl(a[1] * b[1], a[2] * b[2])

fadd(a, b) ==
    IF a[2] # 0 /\ b[2] # 0 THEN Dbl(a[1] * b[2] + b[1] * a[2], a[2] * b[2])
    ELSE IF a[2] = 0 /\ b[2] = 0 THEN (IF a[1] = b[1] THEN a ELSE NaN)
    ELSE IF a[2] = 0 THEN a
    ELSE b

fneg(a) == <<-a[1], a[2]>>

fsub(a, b) == fadd(a, fneg(b))

finv(b) ==
    IF b[1] = 0 THEN (IF b[2] = 0 THEN NaN ELSE Inf)
    ELSE Dbl(b[2] * Sign(b[1]), Abs(b[1]))

fdiv(a, b) == fmul(a, finv(b))

\* a < b; false when either is NaN
flt(a, b) ==
    /\ ~IsNaN(a)
    /\ ~IsNaN(b)
    /\ IF a[2] = 0 /\ b[2] = 0 THEN a[1] < b[1] ELSE a[1] * b[2] < b[1] * a[2]

\* a <= b; false when either is NaN
fle(a, b) == ~IsNaN(a) /\ ~IsNaN(b) /\ (a = b \/ flt(a, b))

---------------------------------------------------------------------------
(* numpy arrays of doubles: a matrix is a sequence of rows *)

\* rows of integers over a common denominator
Mat(den, rows) ==
    [i \in 1..Len(rows) |-> [j \in 1..Len(rows[i]) |-> Dbl(rows[i][j], den)]]

np_identity3 == Mat(1, <<<<1, 0, 0>>, <<0, 1, 0>>, <<0, 0, 1>>>>)

\* np.dot of two 3x3 matrices
np_dot(A, B) ==
    [i \in 1..3 |-> [k \in 1..3 |->
        fadd(fadd(fmul(A[i][1], B[1][k]), fmul(A[i][2], B[2][k])),
             fmul(A[i][3], B[3][k]))]]

Transpose(A) == [i \in 1..3 |-> [j \in 1..3 |-> A[j][i]]]

\* U*S and U/S: numpy broadcasting scales column j of U by S[j]
ColMul(U, S) == [i \in 1..3 |-> [j \in 1..3 |-> fmul(U[i][j], S[j])]]

ColDiv(U, S) == [i \in 1..3 |-> [j \in 1..3 |-> fdiv(U[i][j], S[j])]]

\* S = np.ones(3); S[:nvec] = Sp
PadS(Sp) == [j \in 1..3 |-> IF j <= Len(Sp) THEN Sp[j] ELSE One]

\* U = np.identity(3); U[:nvec,:nvec] = Up
PadU(Up) ==
    [i \in 1..3 |-> [j \in 1..3 |->
        IF i <= Len(Up) /\ j <= Len(Up) THEN Up[i][j]
        ELSE IF i = j THEN One ELSE Zero]]

---------------------------------------------------------------------------
(* np.linalg.svd(rvecs, full_matrices=True), by its contract: it returns   *)
(* an orthogonal Up (n x n), singular values Sp >= 0 in descending order   *)
(* and an orthogonal Vt (3 x 3) with rvecs = Up diag(Sp) Vt[:n].  The      *)
(* lattice matrices of the model are those with such a decomposition over  *)
(* the rationals, built from the orthogonal matrices below.                *)

OrthUp(n) ==
    IF n = 1 THEN {Mat(1, <<<<1>>>>), Mat(1, <<<<-1>>>>)}
    ELSE IF n = 2 THEN {Mat(1, <<<<1, 0>>, <<0, 1>>>>),
                        Mat(1, <<<<0, 1>>, <<1, 0>>>>),
                        Mat(5, <<<<3, -4>>, <<4, 3>>>>)}
    ELSE {np_identity3,
          Mat(5, <<<<3, -4, 0>>, <<4, 3, 0>>, <<0, 0, 5>>>>)}

OrthVt ==
    {np_identity3,
     Mat(5, <<<<0, 0, 5>>, <<3, 4, 0>>, <<-4, 3, 0>>>>)}

Descending(Sp) == \A j \in 1..(Len(Sp) - 1) : Sp[j] >= Sp[j + 1]

SingularValues(n) ==
    {[j \in 1..n |-> Dbl(s[j], 1)] : s \in {t \in [1..n -> 0..MaxS] : Descending(t)}}

Factorizations ==
    UNION {[Sp : SingularValues(n), Up : OrthUp(n), Vt : OrthVt] : n \in 1..3}

\* Up diag(Sp) Vt[:n]
Compose(f) ==
    LET n == Len(f.Sp)
        m == np_dot(ColMul(PadU(f.Up), PadS(f.Sp)), f.Vt)
    IN  [i \in 1..n |-> m[i]]

SVDTable == {<<Compose(f), f>> : f \in Factorizations}

svd(m) == {p[2] : p \in {q \in SVDTable : q[1] = m}}

LatticeMatrices == {p[1] : p \in SVDTable}

---------------------------------------------------------------------------
(* Python values: arrays, exceptions *)

None == [kind |-> "None"]

\* a numpy array of doubles: its shape and, for a 2D array, its rows
Arr(shape, data) ==
    [kind |-> "ndarray", shape |-> shape, data |-> data, ndim |-> Len(shape)]

\* ndarray.size: the product of the shape
size(a) ==
    IF a.ndim = 1 THEN a.shape[1]
    ELSE IF a.ndim = 2 THEN a.shape[1] * a.shape[2]
    ELSE a.shape[1] * a.shape[2] * a.shape[3]

NoError == [type |-> "none", msg |-> ""]

Error(type, msg) == [type |-> type, msg |-> msg]

\* the factors of a matrix with an entry that is not finite: all NaN
NaNFactors(n) ==
    [Sp |-> [j \in 1..n |-> NaN],
     Up |-> [i \in 1..n |-> [j \in 1..n |-> NaN]],
     Vt |-> [i \in 1..3 |-> [j \in 1..3 |-> NaN]]]

\* np.linalg.svd(rvecs, full_matrices=True): a decomposition of the matrix;
\* on an entry that is not finite, depending on the LAPACK build, it raises
\* LinAlgError (None here) or returns factors of NaN
np_linalg_svd(m) ==
    IF \E i \in 1..Len(m) : \E k \in 1..3 : ~IsFinite(m[i][k])
    THEN {None, NaNFactors(Len(m))}
    ELSE svd(m)

---------------------------------------------------------------------------
(* The native cell (cell.Cell) behind the wrapper.  Lengths and the volume  *)
(* are kept squared, so that they stay rational.                            *)

Dot3(u, v) ==
    fadd(fadd(fmul(u[1], v[1]), fmul(u[2], v[2])), fmul(u[3], v[3]))

Det3(m) ==
    fadd(fsub(fmul(m[1][1], fsub(fmul(m[2][2], m[3][3]), fmul(m[2][3], m[3][2]))),
              fmul(m[1][2], fsub(fmul(m[2][1], m[3][3]), fmul(m[2][3], m[3][1])))),
         fmul(m[1][3], fsub(fmul(m[2][1], m[3][2]), fmul(m[2][2], m[3][1]))))

\* the squared generalized volume of the first nvec rows
Volume2(r, nvec) ==
    IF nvec = 0 THEN One
    ELSE IF nvec = 1 THEN Dot3(r[1], r[1])
    ELSE IF nvec = 2 THEN fsub(fmul(Dot3(r[1], r[1]), Dot3(r[2], r[2])),
                               fmul(Dot3(r[1], r[2]), Dot3(r[1], r[2])))
    ELSE fmul(Det3(r), Det3(r))

\* Cell::update(rvecs, gvecs, nvec): copies the three arguments and
\* recomputes every derived quantity
Cell_update(self, mod_rvecs, gvecs, nvec) ==
    [nvec |-> nvec,
     gvecs |-> gvecs,
     rvecs |-> mod_rvecs,
     rlengths2 |-> [i \in 1..3 |-> Dot3(mod_rvecs[i], mod_rvecs[i])],
     glengths2 |-> [i \in 1..3 |-> Dot3(gvecs[i], gvecs[i])],
     volume2 |-> Volume2(mod_rvecs, nvec)]

\* new cell.Cell(), the native object __cinit__ allocates
Cell_new == Cell_update(None, np_identity3, np_identity3, 0)

\* Cell::copy_rvecs / copy_gvecs: the first nvec rows
Cell_copy_rvecs(self) == [i \in 1..self.nvec |-> self.rvecs[i]]

Cell_copy_gvecs(self) == [i \in 1..self.nvec |-> self.gvecs[i]]

---------------------------------------------------------------------------
(* cdef class Cell *)

\* property nvec
nvec_get(self) == self.nvec

\* property rvecs: an (nvec, 3) array filled by copy_rvecs
rvecs_get(self) == Arr(<<nvec_get(self), 3>>, Cell_copy_rvecs(self))

\* property gvecs
gvecs_get(self) == Arr(<<nvec_get(self), 3>>, Cell_copy_gvecs(self))

\* Cell.update_rvecs, up to the call of the native update: what the body
\* raises or the arguments it has prepared, one outcome per decomposition
\* np.linalg.svd may return
update_rvecs_locals(rvecs) ==
    IF rvecs # None /\ rvecs.ndim # 2
    THEN {[raised |-> Error("ValueError", "Buffer has wrong number of dimensions")]}
    ELSE IF rvecs = None \/ size(rvecs) = 0
    THEN {[nvec |-> 0, mod_rvecs |-> np_identity3, gvecs |-> np_identity3,
           raised |-> NoError]}
    ELSE IF rvecs.shape[1] > 3 \/ rvecs.shape[2] # 3
    THEN {[raised |-> Error("TypeError",
               "rvecs must be an array with three columns and at most three rows.")]}
    ELSE {IF f = None
          THEN [raised |-> Error("LinAlgError", "SVD did not converge")]
          ELSE
          LET nvec == rvecs.shape[1]
              S == PadS(f.Sp)
              U == PadU(f.Up)
              dotted == np_dot(ColMul(U, S), f.Vt)
          IN  [nvec |-> nvec,
               mod_rvecs |-> [i \in 1..3 |-> IF i <= nvec THEN rvecs.data[i]
                                             ELSE dotted[i]],
               gvecs |-> np_dot(ColDiv(U, S), f.Vt),
               raised |-> NoError]
          : f \in np_linalg_svd(rvecs.data)}

\* a plausible slip: the two matrices handed to the native update swapped
update_rvecs_swapped(self, rvecs) ==
    {IF l.raised # NoError THEN [self |-> self, raised |-> l.raised]
     ELSE [self |-> Cell_update(self, l.gvecs, l.mod_rvecs, l.nvec), raised |-> NoError]
     : l \in update_rvecs_locals(rvecs)}

\* a plausible slip: the cell is reset before the argument is validated
update_rvecs_reset_first(self, rvecs) ==
    {IF l.raised # NoError
     THEN [self |-> Cell_update(self, np_identity3, np_identity3, 0), raised |-> l.raised]
     ELSE [self |-> Cell_update(self, l.mod_rvecs, l.gvecs, l.nvec), raised |-> NoError]
     : l \in update_rvecs_locals(rvecs)}

\* Cell.update_rvecs(rvecs): the outcomes of the call.  The native update
\* is the last statement and the only one that writes to the cell.
update_rvecs(self, rvecs) ==
    {IF l.raised # NoError THEN [self |-> self, raised |-> l.raised]
     ELSE [self |-> Cell_update(self, l.mod_rvecs, l.gvecs, l.nvec), raised |-> NoError]
     : l \in update_rvecs_locals(rvecs)}

---------------------------------------------------------------------------
(* The arrays handed to the constructor and to update_rvecs *)

EmptyRows(n) == [i \in 1..n |-> <<>>]

\* rows of k columns holding 1.0
OnesRows(n, k) == [i \in 1..n |-> [j \in 1..k |-> One]]

LatticeArrays == {Arr(<<Len(m), 3>>, m) : m \in LatticeMatrices}

EmptyArrays ==
    {Arr(<<0, 3>>, <<>>), Arr(<<4, 0>>, EmptyRows(4)), Arr(<<0, 5>>, <<>>)}

MisshapenArrays ==
    {Arr(<<4, 3>>, OnesRows(4, 3)), Arr(<<2, 2>>, OnesRows(2, 2)),
     Arr(<<1, 4>>, OnesRows(1, 4)), Arr(<<3>>, <<>>), Arr(<<1, 1, 3>>, <<>>)}

\* an array with a NaN in it
NonFiniteArrays == {Arr(<<1, 3>>, <<<<NaN, Zero, Zero>>>>)}

RvecsInputs ==
    {None} \cup LatticeArrays \cup EmptyArrays \cup MisshapenArrays
        \cup NonFiniteArrays

---------------------------------------------------------------------------
(* The Cell a caller holds: constructed once, then updated in place *)

InitCell ==
    /\ cell \in {r.self : r \in update_rvecs(Cell_new, None)}
    /\ supplied = None
    /\ call = [rvecs |-> None, raised |-> NoError, op |-> "__init__"]

\* Cell(rvecs): __cinit__ allocates the native cell, __init__ calls
\* update_rvecs; when it raises no Cell is returned
Construct(rvecs) ==
    \E r \in update_rvecs(Cell_new, rvecs) :
        /\ cell' = IF r.raised = NoError THEN r.self ELSE cell
        /\ supplied' = IF r.raised = NoError THEN rvecs ELSE supplied
        /\ call' = [rvecs |-> rvecs, raised |-> r.raised, op |-> "__init__"]

\* cell.update_rvecs(rvecs)
UpdateRvecs(rvecs) ==
    \E r \in update_rvecs(cell, rvecs) :
        /\ cell' = r.self
        /\ supplied' = IF r.raised = NoError THEN rvecs ELSE supplied
        /\ call' = [rvecs |-> rvecs, raised |-> r.raised, op |-> "update_rvecs"]

NextCell ==
    \E rvecs \in RvecsInputs :
        \/ Construct(rvecs)
        \/ UpdateRvecs(rvecs)

SpecCell == InitCell /\ [][NextCell]_vars

---------------------------------------------------------------------------
(* Cell.from_parameters(lengths, angles).  A length is a double.  An angle  *)
(* is one of the values below, numbered in ascending order, with its exact  *)
(* cosine and sine:                                                         *)
(*   1: 0    2: arccos(3/5)    3: pi/2    4: arccos(-4/5)    5: pi          *)

AngleZero == 1

np_pi == 5

np_cos(angle) == <<Dbl(1, 1), Dbl(3, 5), Dbl(0, 1), Dbl(-4, 5), Dbl(-1, 1)>>[angle]

np_sin(angle) == <<Dbl(0, 1), Dbl(4, 5), Dbl(1, 1), Dbl(3, 5), Dbl(0, 1)>>[angle]

\* the integer square root of a perfect square
ISqrt(n) == CHOOSE k \in 0..n : k * k = n

IsSquare(n) == \E k \in 0..n : k * k = n

\* np.sqrt: NaN for a negative argument; exact on the squares of rationals,
\* the only other arguments the model hands to it
np_sqrt(x) ==
    IF IsNaN(x) \/ flt(x, Zero) THEN NaN
    ELSE IF ~IsFinite(x) THEN x
    ELSE Dbl(ISqrt(x[1]), ISqrt(x[2]))

\* the checks on the numbers of lengths and angles
check_counts(lengths, angles) ==
    IF Len(lengths) = 0 /\ Len(angles) # 0
    THEN Error("TypeError", "When no lengths are given, no angles are expected.")
    ELSE IF Len(lengths) = 1 /\ Len(angles) # 0
    THEN Error("TypeError", "When one length is given, no angles are expected.")
    ELSE IF Len(lengths) = 2 /\ Len(angles) # 1
    THEN Error("TypeError", "When two lengths are given, one angle is expected.")
    ELSE IF Len(lengths) = 3 /\ Len(angles) # 3
    THEN Error("TypeError", "When three lengths are given, three angles are expected.")
    ELSE IF Len(lengths) > 3
    THEN Error("ValueError", "More than three lengths are given.")
    ELSE NoError

\* angle <= 0 or angle >= np.pi
angle_out_of_range(angle) == angle <= AngleZero \/ angle >= np_pi

\* a plausible slip: a length of zero is let through
length_negative(length) == flt(length, Zero)

\* length <= 0
length_not_positive(length) == fle(length, Zero)

\* the checks on the values of the lengths and of the angles
check_values(lengths, angles) ==
    IF \E i \in 1..Len(lengths) : length_not_positive(lengths[i])
    THEN Error("ValueError", "The length parameters must be strictly positive.")
    ELSE IF \E i \in 1..Len(angles) : angle_out_of_range(angles[i])
    THEN Error("ValueError",
               "The angle parameters must lie in the range ]0 deg, 180 deg[.")
    ELSE NoError

\* the first cell vector, along the x-axis
first_vector(lengths) == <<lengths[1], Zero, Zero>>

\* the second cell vector, in the x-y plane
second_vector(lengths, angles) ==
    LET angle == IF Len(lengths) = 2 THEN angles[1] ELSE angles[3]
    IN  <<fmul(np_cos(angle), lengths[2]), fmul(np_sin(angle), lengths[2]), Zero>>

\* lengths[2]**2 - rvecs[2, 0]**2 - rvecs[2, 1]**2
u_c(lengths, angles) ==
    LET a == first_vector(lengths)
        b == second_vector(lengths, angles)
        u_a == fmul(fmul(lengths[1], lengths[3]), np_cos(angles[2]))
        u_b == fmul(fmul(lengths[2], lengths[3]), np_cos(angles[1]))
        c_x == fdiv(u_a, a[1])
        c_y == fdiv(fsub(u_b, fmul(b[1], c_x)), b[2])
    IN  fsub(fsub(fmul(lengths[3], lengths[3]), fmul(c_x, c_x)), fmul(c_y, c_y))

\* a plausible slip: the sign of u_c is not tested
third_vector_unchecked(lengths, angles) ==
    LET a == first_vector(lengths)
        b == second_vector(lengths, angles)
        u_a == fmul(fmul(lengths[1], lengths[3]), np_cos(angles[2]))
        u_b == fmul(fmul(lengths[2], lengths[3]), np_cos(angles[1]))
        c_x == fdiv(u_a, a[1])
        c_y == fdiv(fsub(u_b, fmul(b[1], c_x)), b[2])
    IN  [raised |-> NoError, row |-> <<c_x, c_y, np_sqrt(u_c(lengths, angles))>>]

\* the third cell vector, from its dot products with the first two and with
\* itself
third_vector(lengths, angles) ==
    LET a == first_vector(lengths)
        b == second_vector(lengths, angles)
        u_a == fmul(fmul(lengths[1], lengths[3]), np_cos(angles[2]))
        u_b == fmul(fmul(lengths[2], lengths[3]), np_cos(angles[1]))
        c_x == fdiv(u_a, a[1])
        c_y == fdiv(fsub(u_b, fmul(b[1], c_x)), b[2])
    IN  IF flt(u_c(lengths, angles), Zero)
        THEN [raised |-> Error("ValueError",
                  "The given cell parameters do not correspond to a unit cell."),
              row |-> <<>>]
        ELSE [raised |-> NoError, row |-> <<c_x, c_y, np_sqrt(u_c(lengths, angles))>>]

\* Cell(rvecs), as an expression: the outcomes of the construction
Cell_init(rvecs) ==
    {[self |-> IF r.raised = NoError THEN r.self ELSE None, raised |-> r.raised]
     : r \in update_rvecs(Cell_new, rvecs)}

\* Cell.from_parameters(lengths, angles): the outcomes of the call
from_parameters(lengths, angles) ==
    IF check_counts(lengths, angles) # NoError
    THEN {[self |-> None, raised |-> check_counts(lengths, angles)]}
    ELSE IF check_values(lengths, angles) # NoError
    THEN {[self |-> None, raised |-> check_values(lengths, angles)]}
    ELSE IF Len(lengths) = 0 THEN Cell_init(None)
    ELSE IF Len(lengths) = 1 THEN Cell_init(Arr(<<1, 3>>, <<first_vector(lengths)>>))
    ELSE IF Len(lengths) = 2
    THEN Cell_init(Arr(<<2, 3>>,
                       <<first_vector(lengths), second_vector(lengths, angles)>>))
    ELSE IF third_vector(lengths, angles).raised # NoError
    THEN {[self |-> None, raised |-> third_vector(lengths, angles).raised]}
    ELSE Cell_init(Arr(<<3, 3>>,
                       <<first_vector(lengths), second_vector(lengths, angles),
                         third_vector(lengths, angles).row>>))

---------------------------------------------------------------------------
(* from_parameters is a class method: it reads no Cell.  Its arguments are  *)
(* drawn first, then the call is made.                                      *)

\* the largest number of cell vectors
MaxVectors == 3

SeqsUpTo(S, n) == UNION {[1..k -> S] : k \in 0..n}

LengthValues == {Dbl(k, 1) : k \in (-1)..MaxLength}

AngleValues == AngleZero..np_pi

\* the lattice built from the parameters is one the model can decompose
Decomposable(lengths, angles) ==
    \/ check_counts(lengths, angles) # NoError
    \/ check_values(lengths, angles) # NoError
    \/ Len(lengths) = 0
    \/ Len(lengths) = 1 /\ <<first_vector(lengths)>> \in LatticeMatrices
    \/ Len(lengths) = 2
        /\ <<first_vector(lengths), second_vector(lengths, angles)>> \in LatticeMatrices
    \/ Len(lengths) = 3
        /\ \/ flt(u_c(lengths, angles), Zero)
           \/ /\ IsSquare(u_c(lengths, angles)[1])
              /\ IsSquare(u_c(lengths, angles)[2])
              /\ <<first_vector(lengths), second_vector(lengths, angles),
                   third_vector(lengths, angles).row>> \in LatticeMatrices

ParameterInputs ==
    {p \in SeqsUpTo(LengthValues, MaxVectors + 1) \X SeqsUpTo(AngleValues, MaxVectors) :
        Decomposable(p[1], p[2])}

InitParameters ==
    /\ cell = None
    /\ supplied = None
    /\ \E p \in ParameterInputs :
        call = [raised |-> NoError, op |-> "from_parameters", lengths |-> p[1],
                angles |-> p[2], done |-> FALSE]

FromParameters ==
    /\ ~call.done
    /\ \E r \in from_parameters(call.lengths, call.angles) :
        /\ cell' = r.self
        /\ call' = [call EXCEPT !.raised = r.raised, !.done = TRUE]
        /\ UNCHANGED supplied

NextParameters == FromParameters

SpecParameters == InitParameters /\ [][NextParameters]_vars

---------------------------------------------------------------------------
(* Claims about construction and update *)

InvalidArgumentTypes == {"TypeError", "ValueError"}

IsEmptyInput(a) == a = None \/ size(a) = 0

RowsSupplied(a) == IF IsEmptyInput(a) THEN <<>> ELSE a.data

\* C1: after any sequence of constructions and updates the Cell returns, as
\* rvecs[:nvec], exactly the rows of the most recent successful call, in
\* order and unscaled, and nvec is their number (0 for None or an empty
\* array); only rows nvec..2 of the completed basis are synthetic.
C1_RowsAreSupplied ==
    /\ nvec_get(cell) = Len(RowsSupplied(supplied))
    /\ rvecs_get(cell).shape = <<Len(RowsSupplied(supplied)), 3>>
    /\ rvecs_get(cell).data = RowsSupplied(supplied)
    /\ \A i \in 1..Len(RowsSupplied(supplied)) : cell.rvecs[i] = supplied.data[i]

\* a failed update has left a three-vector cell with non-integer rows in place
C1_Witness ==
    /\ call.op = "update_rvecs"
    /\ call.raised # NoError
    /\ nvec_get(cell) = 3
    /\ \E i \in 1..3 : \E k \in 1..3 : cell.rvecs[i][k][2] = 5

\* C2: the reciprocal matrix is the exact dual of the completed real matrix,
\* gvecs . rvecs^T = identity, for every Cell.
C2_Dual == np_dot(cell.gvecs, Transpose(cell.rvecs)) = np_identity3

\* the rows the caller supplied are finite and linearly independent
Independent(self) == IsFinite(self.volume2) /\ self.volume2 # Zero

\* C2, on the cells whose supplied rows are linearly independent
C2_DualWhenIndependent == Independent(cell) => C2_Dual

\* every field of the cell belongs to the same lattice: the derived
\* quantities are those of the stored matrices
Consistent(self) ==
    /\ self.rlengths2 = [i \in 1..3 |-> Dot3(self.rvecs[i], self.rvecs[i])]
    /\ self.glengths2 = [i \in 1..3 |-> Dot3(self.gvecs[i], self.gvecs[i])]
    /\ self.volume2 = Volume2(self.rvecs, self.nvec)

\* C3: update_rvecs is atomic: a call that raises leaves every field of the
\* Cell as it was, a call that returns has replaced nvec, rvecs, gvecs and
\* the derived quantities together.
C3_Atomic ==
    [][call'.op = "update_rvecs" =>
          IF call'.raised # NoError THEN cell' = cell
          ELSE /\ cell'.nvec = Len(RowsSupplied(call'.rvecs))
               /\ Cell_copy_rvecs(cell') = RowsSupplied(call'.rvecs)
               /\ Consistent(cell')]_vars

\* an update of a two-vector cell has raised
C3_Witness ==
    /\ call.op = "update_rvecs"
    /\ call.raised # NoError
    /\ cell.nvec = 2
    /\ cell.volume2 # Zero

\* the shapes the documentation allows: (k, 3) with 0 <= k <= 3, or None
ShapeAllowed(a) ==
    a = None \/ (a.ndim = 2 /\ a.shape[1] \in 0..3 /\ a.shape[2] = 3)

\* C4: construction and update raise InvalidArgument for every array whose
\* shape is not (k, 3) with 0 <= k <= 3, arrays without elements included.
C4_RejectsOtherShapes ==
    ~ShapeAllowed(call.rvecs) => call.raised.type \in InvalidArgumentTypes

\* C4, for the arrays that have elements
C4_RejectsOtherShapesWithElements ==
    (~ShapeAllowed(call.rvecs) /\ size(call.rvecs) # 0)
        => call.raised.type \in InvalidArgumentTypes

---------------------------------------------------------------------------
(* Claims about from_parameters *)

SupportedCounts == {<<0, 0>>, <<1, 0>>, <<2, 1>>, <<3, 3>>}

\* some argument of the call is one the validation has to refuse
BadParameters ==
    \/ <<Len(call.lengths), Len(call.angles)>> \notin SupportedCounts
    \/ \E i \in 1..Len(call.lengths) : call.lengths[i][1] <= 0
    \/ \E i \in 1..Len(call.angles) : call.angles[i] \in {AngleZero, np_pi}

\* 1 + 2 cos(a)cos(b)cos(c) - cos(a)^2 - cos(b)^2 - cos(c)^2 >= 0: three
\* vectors with these mutual angles exist
Realizable ==
    Len(call.lengths) = 3 =>
        LET ca == np_cos(call.angles[1])
            cb == np_cos(call.angles[2])
            cc == np_cos(call.angles[3])
            two == Dbl(2, 1)
        IN  fle(Zero,
                fsub(fsub(fsub(fadd(One, fmul(two, fmul(ca, fmul(cb, cc)))),
                               fmul(ca, ca)), fmul(cb, cb)), fmul(cc, cc)))

\* C5: from_parameters raises a TypeError or a ValueError and constructs no
\* Cell when the numbers of lengths and angles are not (0,0), (1,0), (2,1) or
\* (3,3), when a length is <= 0 or when an angle is <= 0 or >= pi; a Cell is
\* returned only when none of these holds and the cell is realizable, and it
\* then has as many cell vectors as lengths were given.
C5_Validation ==
    call.done =>
        /\ BadParameters =>
            /\ call.raised.type \in InvalidArgumentTypes
            /\ cell = None
        /\ cell # None =>
            /\ ~BadParameters
            /\ Realizable
            /\ call.raised = NoError
            /\ nvec_get(cell) = Len(call.lengths)

\* a cell of three vectors was returned
C5_Witness ==
    /\ call.done
    /\ cell # None
    /\ nvec_get(cell) = 3
    /\ call.lengths = <<Dbl(2, 1), Dbl(2, 1), Dbl(1, 1)>>

GeometryMessage == "The given cell parameters do not correspond to a unit cell."

\* three lengths and three angles that pass the validation, with a negative
\* squared out-of-plane component of the third vector
UnrealizableParameters ==
    /\ ~BadParameters
    /\ Len(call.lengths) = 3
    /\ flt(u_c(call.lengths, call.angles), Zero)

\* the errors the validation of the arguments raises, over all the arguments
ValidationErrors ==
    {check_counts(p[1], p[2]) : p \in ParameterInputs}
        \cup {check_values(p[1], p[2]) : p \in ParameterInputs}

\* C6: the failure on a negative squared out-of-plane component is of a
\* kind that no failure of the validation of the arguments has.
C6_GeometryErrorKindDistinct ==
    call.done /\ UnrealizableParameters =>
        /\ call.raised # NoError
        /\ cell = None
        /\ \A e \in ValidationErrors : e.type # call.raised.type

\* C6, amended: the failure on a negative squared out-of-plane component is a
\* ValueError, the kind the validation also raises for a bad length or
\* angle; only its message tells it apart from those.
C6_GeometryErrorMessageDistinct ==
    call.done /\ UnrealizableParameters =>
        /\ call.raised = Error("ValueError", GeometryMessage)
        /\ cell = None
        /\ \E e \in ValidationErrors : e.type = call.raised.type
        /\ \A e \in ValidationErrors : e.msg # call.raised.msg

\* lengths 1, 1, 1 with angles arccos(3/5), arccos(3/5), arccos(-4/5)
C6_Witness ==
    /\ call.done
    /\ UnrealizableParameters
    /\ call.raised.msg = GeometryMessage
    /\ call.angles = <<2, 2, 4>>

---------------------------------------------------------------------------
(* smart_wrap *)

\* the remainder of the division of C, which takes the sign of the dividend
CRem(i, n) == Sign(i) * (Abs(i) % n)

\* cell.smart_wrap of the native library: the index wrapped into the grid
\* along a periodic direction; along a direction that is not periodic, the
\* index itself when it lies in the grid and -1 otherwise
cell_smart_wrap(i, shape, pbc) ==
    IF pbc # 0
    THEN IF CRem(i, shape) < 0 THEN CRem(i, shape) + shape ELSE CRem(i, shape)
    ELSE IF i < 0 \/ i >= shape THEN -1
    ELSE i

\* a plausible slip: the periodicity flag is not handed on
smart_wrap_nonperiodic(i, shape, pbc) == cell_smart_wrap(i, shape, 0)

smart_wrap(i, shape, pbc) == cell_smart_wrap(i, shape, pbc)

InitWrap ==
    /\ cell = None
    /\ supplied = None
    /\ \E i \in (-MaxI)..MaxI, shape \in 1..MaxShape, pbc \in 0..2 :
        call = [i |-> i, shape |-> shape, op |-> "smart_wrap", done |-> FALSE,
                pbc |-> pbc, result |-> None]

SmartWrap ==
    /\ ~call.done
    /\ call' = [call EXCEPT !.done = TRUE,
                            !.result = smart_wrap(call.i, call.shape, call.pbc)]
    /\ UNCHANGED <<cell, supplied>>

NextWrap == SmartWrap

SpecWrap == InitWrap /\ [][NextWrap]_vars

\* C9: for shape > 0 and any integer i, smart_wrap returns, when pbc is set,
\* the j with 0 <= j < shape that is congruent to i modulo shape; when pbc is
\* not set, i itself if 0 <= i < shape and -1 otherwise.
C9_SmartWrap ==
    call.done =>
        IF call.pbc # 0
        THEN /\ call.result \in 0..(call.shape - 1)
             /\ \E k \in (-MaxI - 1)..(MaxI + 1) :
                    call.result = call.i + k * call.shape
        ELSE IF call.i \in 0..(call.shape - 1)
        THEN call.result = call.i
        ELSE call.result = -1

\* a negative index wrapped along a periodic direction
C9_Witness ==
    /\ call.done
    /\ call.pbc = 1
    /\ call.i = -5
    /\ call.shape = 3
    /\ call.result = 1

---------------------------------------------------------------------------
(* The polynomial fillers.  lmax is a C long and the minimal sizes are      *)
(* computed in C longs; natural numbers beyond the integers of the model    *)
(* are sequences of digits in base 10000, least significant first.          *)

BigOf(n) == <<n % 10000, (n \div 10000) % 10000, n \div 100000000>>

RECURSIVE BigSum(_, _, _, _)
\* the sum of a[i] * b[k + 1 - i] over the i from lo up
BigSum(a, b, k, lo) ==
    IF lo > Len(a) \/ lo > k THEN 0
    ELSE (IF k + 1 - lo <= Len(b) THEN a[lo] * b[k + 1 - lo] ELSE 0)
         + BigSum(a, b, k, lo + 1)

RECURSIVE BigCarry(_, _)
BigCarry(c, carry) ==
    IF c = <<>>
    THEN IF carry = 0 THEN <<>>
         ELSE <<carry % 10000>> \o BigCarry(<<>>, carry \div 10000)
    ELSE <<(Head(c) + carry) % 10000>>
         \o BigCarry(Tail(c), (Head(c) + carry) \div 10000)

BigMul(a, b) == BigCarry([k \in 1..(Len(a) + Len(b) - 1) |-> BigSum(a, b, k, 1)], 0)

BigDigit(a, k) == IF k <= Len(a) THEN a[k] ELSE 0

RECURSIVE BigLessFrom(_, _, _)
BigLessFrom(a, b, k) ==
    IF k = 0 THEN FALSE
    ELSE IF BigDigit(a, k) # BigDigit(b, k) THEN BigDigit(a, k) < BigDigit(b, k)
    ELSE BigLessFrom(a, b, k - 1)

BigLess(a, b) == BigLessFrom(a, b, IF Len(a) > Len(b) THEN Len(a) ELSE Len(b))

\* the largest long: 9223372036854775807
LONG_MAX == <<5807, 5477, 368, 3372, 922>>

\* an output buffer
Buffer(shape, contiguous) ==
    [shape |-> shape, ndim |-> Len(shape), contiguous |-> contiguous,
     written |-> FALSE]

\* the kernels of the native library write the polynomials into the buffer
moments_fill(output, lmax) == [output EXCEPT !.written = TRUE]

\* how a call of a filler ends
Outcome(raised, output, kernel) ==
    [raised |-> raised, output |-> output, kernel |-> kernel]

WrongDimensions == Error("ValueError", "Buffer has wrong number of dimensions")

SizeError ==
    Error("ValueError",
          "The size of the output array is not sufficient to store the polynomials.")

\* (lmax+1)*(lmax+2)*(lmax+3) does not fit a long
cartesian_overflows(lmax) ==
    BigLess(LONG_MAX,
            BigMul(BigMul(BigOf(lmax + 1), BigOf(lmax + 2)), BigOf(lmax + 3)))

\* output.shape[0] < ((lmax+1)*(lmax+2)*(lmax+3))/6-1
cartesian_size_insufficient(n, lmax) ==
    n < ((lmax + 1) * (lmax + 2) * (lmax + 3)) \div 6 - 1

\* the outcomes of fill_cartesian_polynomials(output, lmax); the overflow of
\* a signed product is undefined, the comparison may then go either way
fill_cartesian_polynomials(output, lmax) ==
    IF output.ndim # 1
    THEN {Outcome(WrongDimensions, output, "none")}
    ELSE IF ~output.contiguous
    THEN {Outcome(Error("AssertionError", ""), output, "none")}
    ELSE IF cartesian_overflows(lmax)
    THEN {Outcome(SizeError, output, "none"),
          Outcome(NoError, moments_fill(output, lmax), "fill_cartesian_polynomials")}
    ELSE IF cartesian_size_insufficient(output.shape[1], lmax)
    THEN {Outcome(SizeError, output, "none")}
    ELSE {Outcome(NoError, moments_fill(output, lmax), "fill_cartesian_polynomials")}

\* tmp.shape[0] < (lmax+1)**2-1, and the same of tmp.shape[1]
pure_size_insufficient(n, lmax) == n < (lmax + 1) * (lmax + 1) - 1

\* the outcomes of fill_pure_polynomials(output, lmax)
fill_pure_polynomials(output, lmax) ==
    IF ~output.contiguous
    THEN {Outcome(Error("AssertionError", ""), output, "none")}
    ELSE IF output.ndim = 1
    THEN IF pure_size_insufficient(output.shape[1], lmax)
         THEN {Outcome(SizeError, output, "none")}
         ELSE {Outcome(NoError, moments_fill(output, lmax), "fill_pure_polynomials")}
    ELSE IF output.ndim = 2
    THEN IF pure_size_insufficient(output.shape[2], lmax)
         THEN {Outcome(SizeError, output, "none")}
         ELSE {Outcome(NoError, moments_fill(output, lmax), "fill_pure_polynomials_array")}
    ELSE {Outcome(Error("NotImplementedError", ""), output, "none")}

\* output.shape[0] < lmax
radial_size_insufficient(n, lmax) == n < lmax

\* the outcomes of fill_radial_polynomials(output, lmax)
fill_radial_polynomials(output, lmax) ==
    IF output.ndim # 1
    THEN {Outcome(WrongDimensions, output, "none")}
    ELSE IF ~output.contiguous
    THEN {Outcome(Error("AssertionError", ""), output, "none")}
    ELSE IF radial_size_insufficient(output.shape[1], lmax)
    THEN {Outcome(SizeError, output, "none")}
    ELSE {Outcome(NoError, moments_fill(output, lmax), "fill_radial_polynomials")}

BufferShapes ==
    {<<n>> : n \in 0..MaxSize}
        \cup {<<k, n>> : k \in 1..2, n \in 0..MaxSize}
        \cup {<<1, 1, n>> : n \in 0..MaxSize}

Fillers == {"fill_cartesian_polynomials", "fill_pure_polynomials",
            "fill_radial_polynomials"}

\* the small values of lmax; for the cartesian filler also one past which
\* its product leaves the longs (the square of the pure filler leaves the
\* longs only for values of lmax beyond the integers of the model)
LmaxInputs(op) ==
    ((-1)..MaxLmax)
        \cup (IF op = "fill_cartesian_polynomials" THEN {HugeLmax} ELSE {})

InitMoments ==
    /\ cell = None
    /\ supplied = None
    /\ \E op \in Fillers, shape \in BufferShapes, contiguous \in BOOLEAN :
        \E lmax \in LmaxInputs(op) :
            call = [raised |-> NoError, op |-> op, done |-> FALSE,
                    output |-> Buffer(shape, contiguous), lmax |-> lmax,
                    kernel |-> "none"]

Filled(r) ==
    /\ call' = [call EXCEPT !.output = r.output, !.done = TRUE,
                            !.raised = r.raised, !.kernel = r.kernel]
    /\ UNCHANGED <<cell, supplied>>

FillCartesianPolynomials ==
    /\ ~call.done
    /\ call.op = "fill_cartesian_polynomials"
    /\ \E r \in fill_cartesian_polynomials(call.output, call.lmax) : Filled(r)

FillPurePolynomials ==
    /\ ~call.done
    /\ call.op = "fill_pure_polynomials"
    /\ \E r \in fill_pure_polynomials(call.output, call.lmax) : Filled(r)

FillRadialPolynomials ==
    /\ ~call.done
    /\ call.op = "fill_radial_polynomials"
    /\ \E r \in fill_radial_polynomials(call.output, call.lmax) : Filled(r)

NextMoments ==
    \/ FillCartesianPolynomials
    \/ FillPurePolynomials
    \/ FillRadialPolynomials

SpecMoments == InitMoments /\ [][NextMoments]_vars

\* the length that has to hold the polynomials: that of a vector, that of a
\* row of a two-dimensional array
RowLength == call.output.shape[call.output.ndim]

\* the buffer is shorter than lmax asks for:
\* (lmax+1)(lmax+2)(lmax+3)/6 - 1, (lmax+1)^2 - 1 and lmax elements
TooShort ==
    IF call.op = "fill_cartesian_polynomials"
    THEN BigLess(BigOf(6 * (RowLength + 1)),
                 BigMul(BigMul(BigOf(call.lmax + 1), BigOf(call.lmax + 2)),
                        BigOf(call.lmax + 3)))
    ELSE IF call.op = "fill_pure_polynomials"
    THEN RowLength + 1 < (call.lmax + 1) * (call.lmax + 1)
    ELSE RowLength < call.lmax

\* the calls the claim is about: a contiguous vector, or for the pure
\* polynomials a contiguous two-dimensional array
FillerCall ==
    /\ call.done
    /\ call.output.contiguous
    /\ call.output.ndim \in (IF call.op = "fill_pure_polynomials" THEN {1, 2} ELSE {1})

\* C10: each filler raises a ValueError, calls no kernel and leaves the
\* buffer unwritten when the buffer is shorter than lmax asks for; with a
\* buffer that is long enough the kernel is called.
C10_SizeChecked ==
    FillerCall =>
        IF TooShort
        THEN /\ call.raised.type \in InvalidArgumentTypes
             /\ call.kernel = "none"
             /\ ~call.output.written
        ELSE /\ call.raised = NoError
             /\ call.kernel # "none"

\* the same, for the values of lmax whose minimal size fits a long
C10_SizeCheckedWithinLong ==
    FillerCall /\ ~cartesian_overflows(call.lmax) =>
        IF TooShort
        THEN /\ call.raised.type \in InvalidArgumentTypes
             /\ call.kernel = "none"
             /\ ~call.output.written
        ELSE /\ call.raised = NoError
             /\ call.kernel # "none"

---------------------------------------------------------------------------
(* Periodic images within a cutoff: get_ranges_rcut and select_inside *)

\* a vector of doubles or of longs, as an array of one dimension
Vector(data, contiguous) ==
    [shape |-> <<Len(data)>>, data |-> data, ndim |-> 1, contiguous |-> contiguous]

\* an array of longs of two dimensions that the caller allocates
Indexes(shape, contiguous) ==
    [shape |-> shape, data |-> <<>>, ndim |-> 2, contiguous |-> contiguous,
     overrun |-> FALSE]

fabs(x) == IF flt(x, Zero) THEN fneg(x) ELSE x

Sub3(u, v) == [j \in 1..3 |-> fsub(u[j], v[j])]

\* Cell::to_frac: the fractional coordinates of a cartesian vector
Cell_to_frac(self, cart) == [i \in 1..3 |-> Dot3(self.gvecs[i], cart)]

RECURSIVE Cell_add_rvec(_, _, _, _)
\* Cell::add_rvec: delta plus r[i] times cell vector i, for the i from k up
Cell_add_rvec(self, delta, r, k) ==
    IF k > self.nvec THEN delta
    ELSE Cell_add_rvec(self,
             [j \in 1..3 |-> fadd(delta[j], fmul(Dbl(r[k], 1), self.rvecs[k][j]))],
             r, k + 1)

RECURSIVE ceil_steps(_, _, _, _)
\* ceil(rcut * sqrt(g2) + f), searched from n up: (rcut + the component of
\* delta across the planes of the axis) / spacing, the spacing being
\* 1 / sqrt(g2) and f the absolute fractional coordinate
ceil_steps(rcut, g2, f, n) ==
    IF /\ fle(f, Dbl(n, 1))
       /\ fle(fmul(fmul(rcut, rcut), g2),
              fmul(fsub(Dbl(n, 1), f), fsub(Dbl(n, 1), f)))
    THEN n
    ELSE ceil_steps(rcut, g2, f, n + 1)

\* Cell::set_ranges_rcut: per active axis the count of whole cells needed to
\* leave the sphere, as the range [-count, count)
Cell_set_ranges_rcut(self, delta, rcut) ==
    LET count == [i \in 1..self.nvec |->
                    ceil_steps(rcut, self.glengths2[i],
                               fabs(Cell_to_frac(self, delta)[i]), 0)]
    IN  [ranges_begin |-> [i \in 1..self.nvec |-> -count[i]],
         ranges_end |-> count]

\* the outcome of Cell.get_ranges_rcut(delta, rcut)
get_ranges_rcut(self, delta, rcut) ==
    IF ~delta.contiguous \/ size(delta) # 3 \/ ~fle(Zero, rcut)
    THEN [raised |-> Error("AssertionError", ""), ranges_begin |-> None,
          ranges_end |-> None]
    ELSE [raised |-> NoError,
          ranges_begin |-> Cell_set_ranges_rcut(self, delta.data, rcut).ranges_begin,
          ranges_end |-> Cell_set_ranges_rcut(self, delta.data, rcut).ranges_end]

RECURSIVE Flatten(_)
Flatten(ss) == IF ss = <<>> THEN <<>> ELSE Head(ss) \o Flatten(Tail(ss))

RECURSIVE Combinations(_, _, _)
\* the combinations of counts within the ranges of the axes from k up, the
\* first axis varying slowest
Combinations(ranges_begin, ranges_end, k) ==
    IF k > Len(ranges_begin) THEN <<<<>>>>
    ELSE LET rest == Combinations(ranges_begin, ranges_end, k + 1)
             n == IF ranges_end[k] > ranges_begin[k]
                  THEN ranges_end[k] - ranges_begin[k] ELSE 0
         IN  Flatten([a \in 1..n |->
                        [b \in 1..Len(rest) |-> <<ranges_begin[k] + a - 1>> \o rest[b]]])

\* the image origin + sum r[i] * rvecs[i] lies within rcut of center
Inside(self, origin, center, rcut, r) ==
    LET d == Sub3(Cell_add_rvec(self, origin, r, 1), center)
    IN  fle(Dot3(d, d), fmul(rcut, rcut))

\* Cell::select_inside: the rows of the accepted images, in the order of
\* the enumeration; a row holds the wrapped count along a periodic axis of
\* the grid and the count itself along the others
Cell_select_inside(self, origin, center, rcut, ranges_begin, ranges_end, shape, pbc) ==
    LET Accepted(r) == Inside(self, origin, center, rcut, r)
        found == SelectSeq(Combinations(ranges_begin, ranges_end, 1), Accepted)
    IN  [k \in 1..Len(found) |->
            [i \in 1..self.nvec |->
                IF pbc[i] # 0 THEN cell_smart_wrap(found[k][i], shape[i], pbc[i])
                ELSE found[k][i]]]

RECURSIVE np_product(_)
np_product(a) == IF a = <<>> THEN 1 ELSE Head(a) * np_product(Tail(a))

\* np.product(ranges_end - ranges_begin)
nselect_max(ranges_begin, ranges_end) ==
    np_product([i \in 1..Len(ranges_begin) |-> ranges_end[i] - ranges_begin[i]])

\* a plausible slip: the rows of the buffer are not counted
capacity_unchecked(indexes, ranges_begin, ranges_end) == TRUE

\* assert indexes.shape[0] == nselect_max
capacity_checked(indexes, ranges_begin, ranges_end) ==
    indexes.shape[1] = nselect_max(ranges_begin.data, ranges_end.data)

\* the rows the library writes, into a buffer that may be too short for them
Written(indexes, rows) ==
    [indexes EXCEPT
        !.data = SubSeq(rows, 1, IF Len(rows) < indexes.shape[1]
                                 THEN Len(rows) ELSE indexes.shape[1]),
        !.overrun = Len(rows) > indexes.shape[1]]

\* the outcome of Cell.select_inside
select_inside(self, origin, center, rcut, ranges_begin, ranges_end, shape, pbc, indexes) ==
    IF \/ ~origin.contiguous \/ size(origin) # 3
       \/ ~center.contiguous \/ size(center) # 3
       \/ ~fle(Zero, rcut)
       \/ ~ranges_begin.contiguous \/ size(ranges_begin) # self.nvec
       \/ ~ranges_end.contiguous \/ size(ranges_end) # self.nvec
       \/ ~indexes.contiguous
       \/ ~shape.contiguous \/ shape.shape[1] # self.nvec
       \/ ~pbc.contiguous \/ pbc.shape[1] # self.nvec
       \/ ~capacity_checked(indexes, ranges_begin, ranges_end)
       \/ indexes.shape[2] # self.nvec
    THEN [raised |-> Error("AssertionError", ""), result |-> None, indexes |-> indexes]
    ELSE LET rows == Cell_select_inside(self, origin.data, center.data, rcut,
                                        ranges_begin.data, ranges_end.data,
                                        shape.data, pbc.data)
         IN  [raised |-> NoError, result |-> Len(rows),
              indexes |-> Written(indexes, rows)]

\* the cells of the lattices whose rows are independent, and the cell
\* without cell vectors
PeriodicCells ==
    {q.self : q \in {o \in UNION {Cell_init(a) : a \in LatticeArrays \cup {None}} :
                        o.raised = NoError /\ Independent(o.self)}}

Cutoffs == {Dbl(k, 2) : k \in (-1)..(2 * MaxCutoff)}

Coordinates == {Dbl(-1, 1), Zero, Dbl(1, 2)}

Deltas ==
    {Vector(d, TRUE) : d \in [1..3 -> Coordinates]}
        \cup {Vector(<<Zero, Zero>>, TRUE), Vector(<<Zero, Zero, Zero>>, FALSE)}

Origins == {Vector(<<Zero, Zero, Zero>>, TRUE),
            Vector(<<Dbl(1, 2), Zero, Dbl(-1, 1)>>, TRUE),
            Vector(<<Zero, Zero>>, TRUE)}

Centers == {Vector(<<One, Zero, Zero>>, TRUE), Vector(<<Zero, Zero, Zero>>, FALSE)}

First(v, n) == SubSeq(v, 1, n)

RangesBegin(n) == {Vector(First(v, n), TRUE) : v \in {<<-1, -1, -1>>, <<0, 0, 0>>}}

RangesEnd(n) ==
    {Vector(First(v, n), TRUE) : v \in {<<1, 1, 1>>, <<2, 0, 1>>, <<-1, 1, 1>>}}
        \cup {Vector(<<1, 1, 1, 1>>, TRUE)}

Shapes(n) == {Vector(First(<<2, 3, 2>>, n), TRUE)}

Pbcs(n) == {Vector(First(v, n), TRUE) : v \in {<<1, 0, 1>>, <<0, 1, 0>>}}

\* buffers with the rows the ranges ask for, and with one row less
IndexBuffers(n, ranges_begin, ranges_end) ==
    IF Len(ranges_begin.data) # Len(ranges_end.data)
    THEN {Indexes(<<1, n>>, TRUE)}
    ELSE {Indexes(<<k, n>>, TRUE) :
            k \in {nselect_max(ranges_begin.data, ranges_end.data),
                   nselect_max(ranges_begin.data, ranges_end.data) - 1} \cap Nat}

\* Neither operation changes the cell: one call on each cell shows all
\* that a sequence of calls can.
InitRanges ==
    /\ cell \in PeriodicCells
    /\ supplied = None
    /\ call = [raised |-> NoError, op |-> "none"]

GetRangesRcut ==
    /\ call.op = "none"
    /\ \E delta \in Deltas, rcut \in Cutoffs :
        call' = [raised |-> get_ranges_rcut(cell, delta, rcut).raised,
                 op |-> "get_ranges_rcut", delta |-> delta, rcut |-> rcut,
                 ranges_begin |-> get_ranges_rcut(cell, delta, rcut).ranges_begin,
                 ranges_end |-> get_ranges_rcut(cell, delta, rcut).ranges_end]
    /\ UNCHANGED <<cell, supplied>>

SelectInside ==
    /\ call.op = "none"
    /\ \E origin \in Origins, center \in Centers, rcut \in Cutoffs,
          ranges_begin \in RangesBegin(cell.nvec), ranges_end \in RangesEnd(cell.nvec),
          shape \in Shapes(cell.nvec), pbc \in Pbcs(cell.nvec) :
        \E indexes \in IndexBuffers(cell.nvec, ranges_begin, ranges_end) :
            LET o == select_inside(cell, origin, center, rcut, ranges_begin,
                                   ranges_end, shape, pbc, indexes)
            IN  call' = [shape |-> shape, raised |-> o.raised,
                         op |-> "select_inside", pbc |-> pbc,
                         result |-> o.result, rcut |-> rcut,
                         ranges_begin |-> ranges_begin, ranges_end |-> ranges_end,
                         origin |-> origin, center |-> center,
                         indexes |-> o.indexes]
    /\ UNCHANGED <<cell, supplied>>

NextRanges == GetRangesRcut \/ SelectInside

SpecRanges == InitRanges /\ [][NextRanges]_vars

---------------------------------------------------------------------------
(* Claims about the periodic images *)

\* the translations of at most MaxImage cell vectors along each active axis
Translations == [1..cell.nvec -> (-MaxImage)..MaxImage]

Norm2(v) == Dot3(v, v)

\* the translation r lies within the ranges the call returned
WithinRanges(r) ==
    \A i \in 1..cell.nvec : call.ranges_begin[i] <= r[i] /\ r[i] < call.ranges_end[i]

\* C7: every translation r with |delta + sum r[i] * rvecs[i]| <= rcut has
\* ranges_begin[i] <= r[i] < ranges_end[i] on every active axis of the
\* ranges that get_ranges_rcut returns.
C7_RangesSound ==
    call.op = "get_ranges_rcut" /\ call.raised = NoError =>
        \A r \in Translations :
            fle(Norm2(Cell_add_rvec(cell, call.delta.data, r, 1)),
                fmul(call.rcut, call.rcut))
                => WithinRanges(r)

\* the same of the images strictly inside the sphere
C7_RangesSoundInside ==
    call.op = "get_ranges_rcut" /\ call.raised = NoError =>
        \A r \in Translations :
            flt(Norm2(Cell_add_rvec(cell, call.delta.data, r, 1)),
                fmul(call.rcut, call.rcut))
                => WithinRanges(r)

\* the combinations of counts within the ranges handed to select_inside
InRanges ==
    {r \in [1..cell.nvec ->
                UNION {call.ranges_begin.data[i]..(call.ranges_end.data[i] - 1) :
                        i \in 1..cell.nvec}] :
        \A i \in 1..cell.nvec :
            call.ranges_begin.data[i] <= r[i] /\ r[i] < call.ranges_end.data[i]}

\* those of them whose image lies within rcut of the center
AcceptedImages ==
    {r \in InRanges :
        fle(Norm2(Sub3(Cell_add_rvec(cell, call.origin.data, r, 1), call.center.data)),
            fmul(call.rcut, call.rcut))}

\* the row of an image: per axis the count modulo the shape when the grid
\* is periodic along the axis, the count itself when it is not
RowOf(r) ==
    [i \in 1..cell.nvec |->
        IF call.pbc.data[i] # 0 THEN r[i] % call.shape.data[i] ELSE r[i]]

\* C8: select_inside returns the number of the combinations within the
\* ranges whose image lies within rcut of the center; the buffer holds one
\* row for each of them and no other row, and their number is at most the
\* product of the extents of the ranges, which is the number of rows of the
\* buffer.
C8_SelectsAccepted ==
    call.op = "select_inside" /\ call.raised = NoError =>
        LET accepted == AcceptedImages
            rows == call.indexes.data
            expected == {RowOf(r) : r \in accepted}
        IN  /\ call.result = Cardinality(accepted)
            /\ Len(rows) = call.result
            /\ ~call.indexes.overrun
            /\ \A k \in 1..Len(rows) : rows[k] \in expected
            /\ \A row \in expected :
                Cardinality({k \in 1..Len(rows) : rows[k] = row})
                    = Cardinality({r \in accepted : RowOf(r) = row})
            /\ call.result <= nselect_max(call.ranges_begin.data, call.ranges_end.data)
            /\ call.result <= call.indexes.shape[1]

\* three cell vectors, several images accepted and others refused
C8_Witness ==
    /\ call.op = "select_inside"
    /\ call.raised = NoError
    /\ cell.nvec = 3
    /\ call.result >= 2
    /\ call.result < call.indexes.shape[1]
    /\ \E k \in 1..call.result : \E i \in 1..3 : call.indexes.data[k][i] < 0

====
